---- MODULE Spec2Model ----
(***************************************************************************)
(* A model of the two React hooks of react-file-processor-hooks:           *)
(*   useFileProcessor  (src/useFileProcessor.ts)                           *)
(*   useReportGenerator (src/useReportGenerator.ts)                        *)
(* One behaviour follows one hook instance.  Every action is one           *)
(* synchronous segment of a handler, from its call or resumption up to     *)
(* its next await or its return.  The segments are written as operators    *)
(* from a state record to a state record, so that a segment that calls     *)
(* another (processFiles -> processFile -> validateFile) is their          *)
(* composition.                                                            *)
(***************************************************************************)
EXTENDS Integers, Sequences, FiniteSets, TLC

VARIABLES
    hook,               \* which hook this instance is
    options,            \* the options the hook was constructed with (merged with the defaults)
    fileSet,            \* the File objects the caller has at hand
    isProcessing,       \* useState(false)
    progress,           \* useState(0), a fraction of 100%
    error,              \* useState(null)
    processedFiles,     \* useState([])
    abortControllerRef, \* useRef(null): 0 is null, c is the controller made by call c
    aborted,            \* signal.aborted of the controller made by call c
    call,               \* the processFile / validateFile invocations
    ncalls,             \* invocation slots handed out so far
    batch,              \* the processFiles invocations
    writes,             \* the values the last step wrote to progress, in order
    isGenerating,       \* useState(false)
    generatedReports,   \* useState([])
    renderedReports,    \* the generatedReports the last render closed clearReports over
    rcall,              \* the generateReport invocations
    nreports,           \* generateReport slots handed out so far
    multi,              \* the generateMultipleReports invocation
    timers,             \* object URLs whose setTimeout(revokeObjectURL) is pending
    revoked,            \* object URLs that were revoked
    input,              \* the data at hand: the text the FileReader yields for the
                        \* caller's files, or the argument of generateCSV
    output              \* <<the text generateCSV returned>>, <<>> before its call

fvars == <<isProcessing, processedFiles, abortControllerRef, aborted, call, ncalls, batch>>
rvars == <<isGenerating, generatedReports, renderedReports, rcall, nreports, multi,
           timers, revoked>>
vars == <<hook, options, fileSet, progress, error, writes, fvars, rvars, input, output>>

----------------------------------------------------------------------------
(* Bounds *)

\* processFile / validateFile invocations in one behaviour
MaxCalls == 2
\* processFiles invocations in one behaviour
MaxBatches == 1
\* longest array handed to processFiles
MaxBatchLen == 2
\* generateReport invocations in one behaviour
MaxReports == 2
\* longest array of formats handed to generateMultipleReports
MaxFormats == 2

Calls == 1..MaxCalls
Batches == 1..MaxBatches
ReportCalls == 1..MaxReports

----------------------------------------------------------------------------
(* Values *)

\* an optional value: None is undefined
None == <<>>
Some(x) == <<x>>

\* JavaScript truthiness of an optional number, as in `validationOptions.maxSize && ...`
Truthy(o) == o # None /\ o[1] # 0

\* progress values are fractions n/d of 100%, kept in lowest terms
GCD(a, b) == CHOOSE g \in 1..(IF a > b THEN a ELSE b) :
    /\ a % g = 0 /\ b % g = 0
    /\ \A h \in 1..(IF a > b THEN a ELSE b) : (a % h = 0 /\ b % h = 0) => h <= g
Frac(n, d) == IF n = 0 THEN [n |-> 0, d |-> 1]
              ELSE [n |-> n \div GCD(n, d), d |-> d \div GCD(n, d)]
Leq(p, q) == p.n * q.d <= q.n * p.d
Less(p, q) == p.n * q.d < q.n * p.d

\* file names are sequences of characters
Lower(ch) == CASE ch = "T" -> "t" [] ch = "X" -> "x" [] OTHER -> ch
ToLowerCase(str) == [i \in 1..Len(str) |-> Lower(str[i])]

\* String.prototype.split('.') followed by pop(): the text after the final '.',
\* the whole text when it holds no '.'
LastDot(str) == IF \E i \in 1..Len(str) : str[i] = "."
                THEN CHOOSE i \in 1..Len(str) :
                        str[i] = "." /\ \A j \in (i+1)..Len(str) : str[j] # "."
                ELSE 0
SplitPop(str) == SubSeq(str, LastDot(str) + 1, Len(str))

\* '.' + file.name.split('.').pop()?.toLowerCase()
Extension(name) == <<".">> \o ToLowerCase(SplitPop(name))

DefaultMaxSize == 10485760
DefaultMinSize == 1
DefaultAllowedTypes == {"text/plain", "text/csv", "application/json", "text/html", "text/markdown"}
DefaultAllowedExtensions ==
    { <<".", "t", "x", "t">>, <<".", "c", "s", "v">>, <<".", "j", "s", "o", "n">>,
      <<".", "h", "t", "m", "l">>, <<".", "m", "d">>, <<".", "d", "o", "c", "x">>,
      <<".", "p", "d", "f">> }

DEFAULT_VALIDATION ==
    [ maxSize |-> Some(DefaultMaxSize), minSize |-> Some(DefaultMinSize),
      allowedTypes |-> Some(DefaultAllowedTypes),
      allowedExtensions |-> Some(DefaultAllowedExtensions),
      customValidator |-> FALSE ]

DEFAULT_PROCESSING == [ calculateChecksum |-> FALSE ]

\* the messages of the errors thrown in validateFile and processFile
MsgMaxSize == "File size exceeds maximum allowed size"
MsgMinSize == "File size is below minimum required size"
MsgType == "File type is not allowed"
MsgExtension == "File extension is not allowed"
MsgCustom == "File failed custom validation"
MsgValidatorThrew == "message of the error the custom validator threw"
MsgCallbackThrew == "message of the error a callback threw"
MsgRead == "Failed to read file"
MsgAborted == "Operation was aborted"
MsgDigest == "message of the error the digest threw"

NoFile == [name |-> <<>>, size |-> 0, type |-> ""]
NoError == [code |-> "null", message |-> "", file |-> NoFile]

UnusedCall ==
    [ op |-> "none", pc |-> "unused", file |-> NoFile, owner |-> 0,
      valid |-> "pending", result |-> "pending",
      customInvoked |-> FALSE, readStarted |-> FALSE, readLoaded |-> FALSE,
      abortedInRead |-> FALSE,
      nErrors |-> 0, lastCode |-> "null", lastMessage |-> "",
      nOnError |-> 0, nOnSuccess |-> 0 ]

UnusedBatch == [pc |-> "unused", files |-> <<>>, i |-> 0, results |-> <<>>, base |-> 0]

\* what a caller-supplied callback or an awaited host operation does when it is run
CallbackOutcomes == {"returns", "throws"}
CallbackThrows(configured, outcome) == configured /\ outcome = "throws"

----------------------------------------------------------------------------
(* The state as one record, and its write-back *)

St ==
    [ hook |-> hook, options |-> options, fileSet |-> fileSet,
      isProcessing |-> isProcessing, progress |-> progress, error |-> error,
      processedFiles |-> processedFiles,
      abortControllerRef |-> abortControllerRef, aborted |-> aborted,
      call |-> call, ncalls |-> ncalls, batch |-> batch,
      writes |-> <<>>,
      isGenerating |-> isGenerating, generatedReports |-> generatedReports,
      renderedReports |-> renderedReports, rcall |-> rcall, nreports |-> nreports,
      multi |-> multi, timers |-> timers, revoked |-> revoked,
      input |-> input, output |-> output ]

Becomes(s) ==
    /\ hook' = s.hook
    /\ options' = s.options
    /\ fileSet' = s.fileSet
    /\ isProcessing' = s.isProcessing
    /\ progress' = s.progress
    /\ error' = s.error
    /\ processedFiles' = s.processedFiles
    /\ abortControllerRef' = s.abortControllerRef
    /\ aborted' = s.aborted
    /\ call' = s.call
    /\ ncalls' = s.ncalls
    /\ batch' = s.batch
    /\ writes' = s.writes
    /\ isGenerating' = s.isGenerating
    /\ generatedReports' = s.generatedReports
    /\ renderedReports' = s.renderedReports
    /\ rcall' = s.rcall
    /\ nreports' = s.nreports
    /\ multi' = s.multi
    /\ timers' = s.timers
    /\ revoked' = s.revoked
    /\ input' = s.input
    /\ output' = s.output

setIsProcessing(s, b) == [s EXCEPT !.isProcessing = b]
setProgress(s, p) == [s EXCEPT !.progress = p, !.writes = Append(@, p)]
setError(s, e) == [s EXCEPT !.error = e]
setIsGenerating(s, b) == [s EXCEPT !.isGenerating = b]

----------------------------------------------------------------------------
(* useFileProcessor: validateFile *)

\* the rules with the MIME type looked at before the sizes
RuleViolation_typeFirst(file, v) ==
    IF v.allowedTypes # None /\ file.type \notin v.allowedTypes[1] THEN MsgType
    ELSE IF Truthy(v.maxSize) /\ file.size > v.maxSize[1] THEN MsgMaxSize
    ELSE IF Truthy(v.minSize) /\ file.size < v.minSize[1] THEN MsgMinSize
    ELSE IF v.allowedExtensions # None /\ Extension(file.name) \notin v.allowedExtensions[1]
         THEN MsgExtension
    ELSE "none"

\* the four synchronous rules, in the order of their `throw`s; the message of
\* the first error thrown, "none" when no rule throws
RuleViolation(file, v) ==
    IF Truthy(v.maxSize) /\ file.size > v.maxSize[1] THEN MsgMaxSize
    ELSE IF Truthy(v.minSize) /\ file.size < v.minSize[1] THEN MsgMinSize
    ELSE IF v.allowedTypes # None /\ file.type \notin v.allowedTypes[1] THEN MsgType
    ELSE IF v.allowedExtensions # None /\ Extension(file.name) \notin v.allowedExtensions[1]
         THEN MsgExtension
    ELSE "none"

\* options.onError?.(fileError)
InvokeOnError(s, c) ==
    IF s.options.onError THEN [s EXCEPT !.call[c].nOnError = @ + 1] ELSE s

\* setError(fileError); options.onError?.(fileError)
ReportError(s, c, code, msg) ==
    InvokeOnError(
        [ setError(s, [code |-> code, message |-> msg, file |-> s.call[c].file])
            EXCEPT !.call[c].nErrors = @ + 1, !.call[c].lastCode = code,
                   !.call[c].lastMessage = msg ],
        c)

\* the promise of validateFile settles: a direct call is over, a processFile
\* that awaits it can resume
ValidateFileSettled(s, c, v) ==
    IF s.call[c].op = "validateFile"
    THEN [s EXCEPT !.call[c].valid = v, !.call[c].pc = "done", !.call[c].result = v]
    ELSE [s EXCEPT !.call[c].valid = v, !.call[c].pc = "validated"]

\* the catch block of validateFile; an onError that throws there rejects the promise
ValidateFileCatch(s, c, msg, onErr) ==
    ValidateFileSettled(
        ReportError(s, c, "VALIDATION_ERROR", msg), c,
        IF CallbackThrows(s.options.onError, onErr) THEN "rejected" ELSE "false")

\* validateFile up to `await validationOptions.customValidator(file)`
validateFile(s, c, onErr) ==
    LET msg == RuleViolation(s.call[c].file, s.options.validation)
    IN  IF msg # "none" THEN ValidateFileCatch(s, c, msg, onErr)
        ELSE IF s.options.validation.customValidator
             THEN [s EXCEPT !.call[c].pc = "validating", !.call[c].customInvoked = TRUE]
        ELSE ValidateFileSettled(s, c, "true")

\* validateFile from the settling of the custom validator: it resolved true or
\* false, or threw / rejected
validateFile_afterCustom(s, c, isValid, onErr) ==
    CASE isValid = "true" -> ValidateFileSettled(s, c, "true")
      [] isValid = "false" -> ValidateFileCatch(s, c, MsgCustom, onErr)
      [] OTHER -> ValidateFileCatch(s, c, MsgValidatorThrew, onErr)

----------------------------------------------------------------------------
(* useFileProcessor: countWords, countLines *)

\* the characters \s matches and trim() removes, among those of the texts
IsWhitespace(ch) == ch \in {" ", "\t", "\n"}

\* String.prototype.trim
Trim(text) ==
    IF \A i \in 1..Len(text) : IsWhitespace(text[i]) THEN <<>>
    ELSE LET first == CHOOSE i \in 1..Len(text) :
                 ~IsWhitespace(text[i]) /\ \A j \in 1..(i - 1) : IsWhitespace(text[j])
             last == CHOOSE i \in 1..Len(text) :
                 ~IsWhitespace(text[i]) /\ \A j \in (i + 1)..Len(text) : IsWhitespace(text[j])
         IN  SubSeq(text, first, last)

\* text.split(/\s+/) from position k on: every run of whitespace ends a piece
RECURSIVE SplitWhitespace(_, _, _, _)
SplitWhitespace(text, k, piece, inRun) ==
    IF k > Len(text) THEN <<piece>>
    ELSE IF IsWhitespace(text[k])
         THEN IF inRun THEN SplitWhitespace(text, k + 1, piece, TRUE)
              ELSE <<piece>> \o SplitWhitespace(text, k + 1, <<>>, TRUE)
    ELSE SplitWhitespace(text, k + 1, Append(piece, text[k]), FALSE)

\* text.split('\n') from position k on: every newline ends a piece
RECURSIVE SplitNewline(_, _, _)
SplitNewline(text, k, piece) ==
    IF k > Len(text) THEN <<piece>>
    ELSE IF text[k] = "\n" THEN <<piece>> \o SplitNewline(text, k + 1, <<>>)
    ELSE SplitNewline(text, k + 1, Append(piece, text[k]))

NonEmptyWord(word) == Len(word) > 0

\* countWords without the filter that drops the empty pieces
countWords_unfiltered(text) == Len(SplitWhitespace(Trim(text), 1, <<>>, FALSE))

countWords(text) ==
    Len(SelectSeq(SplitWhitespace(Trim(text), 1, <<>>, FALSE), NonEmptyWord))

countLines(text) == Len(SplitNewline(text, 1, <<>>))

----------------------------------------------------------------------------
(* useFileProcessor: processFile *)

\* the cleanup written at the end of the try block instead of in a finally
processFile_cleanupInTry(s, c, how) ==
    [ (IF how = "file" THEN setIsProcessing(s, FALSE) ELSE s)
        EXCEPT !.abortControllerRef = 0, !.call[c].pc = "done", !.call[c].result = how ]

\* the finally block; `how` is "file" (returned the ProcessedFile), "null"
\* (returned null) or "rejected" (an error left the catch block)
processFile_finally(s, c, how) ==
    [ setIsProcessing(s, FALSE)
        EXCEPT !.abortControllerRef = 0, !.call[c].pc = "done", !.call[c].result = how ]

\* the catch block, followed by the finally block
processFile_catch(s, c, msg, onErr) ==
    processFile_finally(
        ReportError(s, c, "PROCESSING_ERROR", msg), c,
        IF CallbackThrows(s.options.onError, onErr) THEN "rejected" ELSE "null")

\* processFile up to `await validateFile(file)`
processFile(s, c, f, owner, onErr) ==
    LET s1 == setError(setProgress(setIsProcessing(s, TRUE), Frac(0, 1)), NoError)
        s2 == [ s1 EXCEPT !.abortControllerRef = c, !.aborted[c] = FALSE,
                          !.call[c] = [UnusedCall EXCEPT !.op = "processFile",
                                          !.pc = "started", !.file = f, !.owner = owner] ]
    IN  validateFile(s2, c, onErr)

\* processFile from the settling of validateFile up to the await of the read
processFile_afterValidate(s, c, onErr) ==
    CASE s.call[c].valid = "rejected" -> processFile_catch(s, c, MsgCallbackThrew, onErr)
      [] s.call[c].valid = "false" -> processFile_finally(s, c, "null")
      [] OTHER -> [s EXCEPT !.call[c].pc = "reading", !.call[c].readStarted = TRUE]

\* the tail of the try block: setProgress(100), the append, onSuccess, return
processFile_complete(s, c, onSucc, onErr) ==
    LET s1 == setProgress(s, Frac(1, 1))
        s2 == [ s1 EXCEPT !.processedFiles =
                    Append(@, [ file |-> s.call[c].file, call |-> c,
                                content |-> s.input,
                                characterCount |-> Len(s.input),
                                wordCount |-> countWords(s.input),
                                lineCount |-> countLines(s.input) ]) ]
        s3 == IF s.options.onSuccess THEN [s2 EXCEPT !.call[c].nOnSuccess = @ + 1] ELSE s2
    IN  IF CallbackThrows(s.options.onSuccess, onSucc)
        THEN processFile_catch(s3, c, MsgCallbackThrew, onErr)
        ELSE processFile_finally(s3, c, "file")

\* processFile from the settling of the read: reader.onerror rejects, reader.onload
\* resolves and the abort signal of the controller the ref now holds is looked at
processFile_afterRead(s, c, loaded, onSucc, onErr) ==
    IF ~loaded THEN processFile_catch(s, c, MsgRead, onErr)
    ELSE LET s1 == [s EXCEPT !.call[c].readLoaded = TRUE]
         IN  IF s.abortControllerRef # 0 /\ s.aborted[s.abortControllerRef]
             THEN processFile_catch(s1, c, MsgAborted, onErr)
             ELSE IF s.options.processing.calculateChecksum
                  THEN [s1 EXCEPT !.call[c].pc = "hashing"]
             ELSE processFile_complete(s1, c, onSucc, onErr)

\* processFile from the settling of `await calculateChecksum(content)`
processFile_afterChecksum(s, c, digested, onSucc, onErr) ==
    IF digested THEN processFile_complete(s, c, onSucc, onErr)
    ELSE processFile_catch(s, c, MsgDigest, onErr)

----------------------------------------------------------------------------
(* useFileProcessor: processFiles, abortProcessing, clearProcessedFiles *)

\* one pass of the loop body up to `await processFile(file)`; the model's i is
\* the code's i + 1
processFiles_iteration(s, b, onErr) ==
    processFile(s, s.batch[b].base + s.batch[b].i, s.batch[b].files[s.batch[b].i], b, onErr)

\* processFiles up to its first await; an empty array returns [] at once
processFiles(s, b, files, onErr) ==
    LET s1 == [ s EXCEPT !.batch[b] = [ pc |-> "awaiting", files |-> files, i |-> 1,
                                        results |-> <<>>, base |-> s.ncalls ],
                         !.ncalls = @ + Len(files) ]
    IN  IF Len(files) = 0 THEN [s1 EXCEPT !.batch[b].pc = "done"]
        ELSE processFiles_iteration(s1, b, onErr)

\* processFiles from the settling of `await processFile(file)`: a rejection
\* leaves the loop, otherwise push, setProgress and the next pass or the return
processFiles_resume(s, b, onErr) ==
    LET bt == s.batch[b]
        c == bt.base + bt.i
        r == s.call[c].result
        s1 == IF r = "file"
              THEN [s EXCEPT !.batch[b].results = Append(@, [file |-> s.call[c].file, call |-> c])]
              ELSE s
        s2 == setProgress(s1, Frac(bt.i, Len(bt.files)))
    IN  IF r = "rejected" THEN [s EXCEPT !.batch[b].pc = "rejected"]
        ELSE IF bt.i < Len(bt.files)
             THEN processFiles_iteration([s2 EXCEPT !.batch[b].i = @ + 1], b, onErr)
        ELSE [s2 EXCEPT !.batch[b].pc = "done"]

abortProcessing(s) ==
    IF s.abortControllerRef # 0
    THEN setProgress(
            setIsProcessing([s EXCEPT !.aborted[s.abortControllerRef] = TRUE], FALSE),
            Frac(0, 1))
    ELSE s

clearProcessedFiles(s) ==
    setProgress(setError([s EXCEPT !.processedFiles = <<>>], NoError), Frac(0, 1))

----------------------------------------------------------------------------
(* useReportGenerator *)

ReportFormat == {"json", "csv", "html", "pdf", "xlsx", "txt"}
\* the switch with a case for pdf
SupportedFormat_withPdf == {"json", "csv", "html", "txt", "pdf"}
\* the cases of the switch in generateReport
SupportedFormat == {"json", "csv", "html", "txt"}
\* blob.size of a generated report
ReportSizes == {1, 2}
\* the tags a caller can pass: the declared ones, and one the type does not declare
FormatTags == ReportFormat \cup {"yaml"}

\* `Unsupported format: ${options.format}`
MsgUnsupported(format) == "Unsupported format: " \o format
MsgFormatterThrew == "message of the error the formatter threw"

UnusedReportCall == [pc |-> "unused", format |-> "", result |-> 0]
UnusedMulti == [pc |-> "unused", formats |-> <<>>, i |-> 0, reports |-> <<>>, base |-> 0]

\* the finally block; result 0 is null, r is the report made by invocation r
generateReport_finally(s, r, result) ==
    [ setIsGenerating(s, FALSE) EXCEPT !.rcall[r].pc = "done", !.rcall[r].result = result ]

\* the catch block, followed by the finally block
generateReport_catch(s, r, msg) ==
    generateReport_finally(
        setError(s, [code |-> "GENERATION_ERROR", message |-> msg, file |-> NoFile]), r, 0)

\* downloadBlob: URL.createObjectURL, the click, and the timer that revokes the URL
downloadBlob(s, url) == [s EXCEPT !.timers = @ \cup {url}]

\* generateReport: it holds no await, so the whole call is one segment.
\* `formatter` is what the generate* function of the format does on the data.
generateReport(s, r, format, formatter, size) ==
    LET s1 == setError(setProgress(setIsGenerating(s, TRUE), Frac(0, 1)), NoError)
        s2 == setProgress([s1 EXCEPT !.rcall[r] = [pc |-> "started", format |-> format,
                                                    result |-> 0]],
                          Frac(25, 100))
        s3 == downloadBlob(setProgress(setProgress(s2, Frac(75, 100)), Frac(90, 100)), r)
        report == [format |-> format, size |-> size, downloadUrl |-> r]
        s4 == [setProgress(s3, Frac(1, 1)) EXCEPT !.generatedReports = Append(@, report)]
    IN  IF format \notin SupportedFormat THEN generateReport_catch(s2, r, MsgUnsupported(format))
        ELSE IF formatter = "throws" THEN generateReport_catch(s2, r, MsgFormatterThrew)
        ELSE generateReport_finally(s4, r, r)

\* one pass of the loop body up to `await generateReport(data, options)`
generateMultipleReports_iteration(s, formatter, size) ==
    generateReport(s, s.multi.base + s.multi.i, s.multi.formats[s.multi.i], formatter, size)

generateMultipleReports(s, formats, formatter, size) ==
    LET s1 == [ s EXCEPT !.multi = [ pc |-> "awaiting", formats |-> formats, i |-> 1,
                                     reports |-> <<>>, base |-> s.nreports ],
                         !.nreports = @ + Len(formats) ]
    IN  IF Len(formats) = 0 THEN [s1 EXCEPT !.multi.pc = "done"]
        ELSE generateMultipleReports_iteration(s1, formatter, size)

generateMultipleReports_resume(s, formatter, size) ==
    LET m == s.multi
        r == s.rcall[m.base + m.i].result
        s1 == IF r # 0 THEN [s EXCEPT !.multi.reports = Append(@, r)] ELSE s
        s2 == setProgress(s1, Frac(m.i, Len(m.formats)))
    IN  IF m.i < Len(m.formats)
        THEN generateMultipleReports_iteration([s2 EXCEPT !.multi.i = @ + 1], formatter, size)
        ELSE [s2 EXCEPT !.multi.pc = "done"]

\* clearReports revokes the URLs of the generatedReports it closed over
clearReports(s) ==
    LET s1 == [s EXCEPT !.revoked = @ \cup {s.renderedReports[k].downloadUrl :
                                                k \in 1..Len(s.renderedReports)}]
    IN  setProgress(setError([s1 EXCEPT !.generatedReports = <<>>], NoError), Frac(0, 1))

\* generatedReports.reduce((sum, report) => sum + report.size, 0)
RECURSIVE TotalSize(_, _)
TotalSize(reports, k) ==
    IF k = 0 THEN 0 ELSE TotalSize(reports, k - 1) + reports[k].size

\* the reduce that builds formatCounts: counts[format] = (counts[format] || 0) + 1
RECURSIVE FormatCounts(_, _)
FormatCounts(reports, k) ==
    IF k = 0 THEN [f \in {} |-> 0]
    ELSE LET counts == FormatCounts(reports, k - 1)
             format == reports[k].format
         IN  IF format \in DOMAIN counts
             THEN [counts EXCEPT ![format] = @ + 1]
             ELSE counts @@ (format :> 0 + 1)

\* getReportStats with the average over one report too many
getReportStats_averageOffByOne(reports) ==
    [ totalReports |-> Len(reports),
      totalSize |-> TotalSize(reports, Len(reports)),
      formatCounts |-> FormatCounts(reports, Len(reports)),
      averageSize |-> IF Len(reports) > 0
                      THEN Frac(TotalSize(reports, Len(reports)), Len(reports) + 1)
                      ELSE Frac(0, 1) ]

\* getReportStats over the generatedReports it closed over; the quotient
\* totalSize / length is kept as a fraction
getReportStats(reports) ==
    [ totalReports |-> Len(reports),
      totalSize |-> TotalSize(reports, Len(reports)),
      formatCounts |-> FormatCounts(reports, Len(reports)),
      averageSize |-> IF Len(reports) > 0
                      THEN Frac(TotalSize(reports, Len(reports)), Len(reports))
                      ELSE Frac(0, 1) ]

----------------------------------------------------------------------------
(* useReportGenerator: generateCSV *)

\* JavaScript values: kind is the type, str is what String(value) gives
JsNull == [kind |-> "null", str |-> <<"n", "u", "l", "l">>]
JsUndefined ==
    [kind |-> "undefined", str |-> <<"u", "n", "d", "e", "f", "i", "n", "e", "d">>]
JsNumber(digits) == [kind |-> "number", str |-> digits]
JsString(s) == [kind |-> "string", str |-> s]
\* String(Object), the constructor every plain object inherits
JsObjectConstructor ==
    [ kind |-> "function",
      str |-> <<"f", "u", "n", "c", "t", "i", "o", "n", " ", "O", "b", "j", "e", "c", "t", "(", ")", " ", "{", " ", "[", "n", "a", "t", "i", "v", "e", " ", "c", "o", "d", "e", "]", " ", "}">> ]

\* the key of the property every plain object inherits from Object.prototype
ConstructorKey == <<"c", "o", "n", "s", "t", "r", "u", "c", "t", "o", "r">>

\* a record is the sequence of its own properties [key, value], in the order
\* Object.keys lists them
ObjectKeys(item) == [i \in 1..Len(item) |-> item[i].key]

\* item[key]: the own property, else the one inherited from Object.prototype,
\* else undefined
Get(item, key) ==
    IF \E i \in 1..Len(item) : item[i].key = key
    THEN item[CHOOSE i \in 1..Len(item) : item[i].key = key].value
    ELSE IF key = ConstructorKey THEN JsObjectConstructor
    ELSE JsUndefined

\* data.flatMap(Object.keys)
RECURSIVE FlatMapKeys(_, _)
FlatMapKeys(data, k) ==
    IF k = 0 THEN <<>> ELSE FlatMapKeys(data, k - 1) \o ObjectKeys(data[k])

\* Array.from(new Set(keys)): each key once, at its first position
RECURSIVE UniqueKeys(_, _)
UniqueKeys(keys, k) ==
    IF k = 0 THEN <<>>
    ELSE LET before == UniqueKeys(keys, k - 1)
         IN  IF \E i \in 1..Len(before) : before[i] = keys[k]
             THEN before ELSE Append(before, keys[k])

\* Array.prototype.join
RECURSIVE Join(_, _, _)
Join(strs, sep, k) ==
    IF k = 0 THEN <<>>
    ELSE IF k = 1 THEN strs[1]
    ELSE Join(strs, sep, k - 1) \o sep \o strs[k]

Includes(str, ch) == \E i \in 1..Len(str) : str[i] = ch

\* stringValue.replace(/"/g, '""')
RECURSIVE DoubleQuotes(_, _)
DoubleQuotes(str, k) ==
    IF k = 0 THEN <<>>
    ELSE DoubleQuotes(str, k - 1) \o (IF str[k] = "\"" THEN <<"\"", "\"">> ELSE <<str[k]>>)

\* the callback of allKeys.map: the text of one field
CsvField(value) ==
    IF value.kind \in {"null", "undefined"} THEN <<>>
    ELSE IF Includes(value.str, ",") \/ Includes(value.str, "\"") \/ Includes(value.str, "\n")
         THEN <<"\"">> \o DoubleQuotes(value.str, Len(value.str)) \o <<"\"">>
    ELSE value.str

generateCSV(data) ==
    IF Len(data) = 0 THEN <<>>
    ELSE LET flat == FlatMapKeys(data, Len(data))
             allKeys == UniqueKeys(flat, Len(flat))
             header == Join(allKeys, <<",">>, Len(allKeys))
             row(item) == Join([j \in 1..Len(allKeys) |-> CsvField(Get(item, allKeys[j]))],
                               <<",">>, Len(allKeys))
             csvRows == <<header>> \o [i \in 1..Len(data) |-> row(data[i])]
         IN  Join(csvRows, <<"\n">>, Len(csvRows))

----------------------------------------------------------------------------
(* The inputs *)

SeqsUpTo(S, n) == UNION {[1..k -> S] : k \in 0..n}

TxtName == <<"a", ".", "t", "x", "t">>
GoodFile == [name |-> TxtName, size |-> 5, type |-> "text/plain"]
EmptyFile == [name |-> TxtName, size |-> 0, type |-> "text/plain"]
Files == {GoodFile, EmptyFile}
\* what the FileReader reads from GoodFile
GoodContent == <<"a", " ", "b", "\n", "c">>

\* useFileProcessor() with no options
PlainOptions ==
    [ validation |-> DEFAULT_VALIDATION, processing |-> DEFAULT_PROCESSING,
      onError |-> FALSE, onSuccess |-> FALSE ]
\* useFileProcessor({onError, onSuccess})
CallbackOptions == [PlainOptions EXCEPT !.onError = TRUE, !.onSuccess = TRUE]
\* useFileProcessor({validation: {customValidator}, processing: {calculateChecksum: true}})
AwaitOptions ==
    [ validation |-> [DEFAULT_VALIDATION EXCEPT !.customValidator = TRUE],
      processing |-> [calculateChecksum |-> TRUE],
      onError |-> FALSE, onSuccess |-> FALSE ]
HookOptions == {PlainOptions, CallbackOptions, AwaitOptions}

\* the rule sets and the files validateFile is exercised on
ValidationOptionSets ==
    [ maxSize : {None, Some(0), Some(1), Some(DefaultMaxSize)},
      minSize : {None, Some(DefaultMinSize), Some(3)},
      allowedTypes : {None, Some(DefaultAllowedTypes)},
      allowedExtensions : {None, Some(DefaultAllowedExtensions)},
      customValidator : BOOLEAN ]
ValidationFiles ==
    [ name : { TxtName, <<"a", ".", "T", "X", "T">>, <<"a", ".", "p", "n", "g">>,
               <<"t", "x", "t">>, <<"a", ".">> },
      size : {0, 2, DefaultMaxSize + 1},
      type : {"text/plain", "image/png"} ]

\* longest text, apart from the three examples
MaxTextLen == 5
\* the contents processFile is exercised on
Texts ==
    SeqsUpTo({"a", " ", "\t", "\n"}, MaxTextLen)
        \cup { <<" ", " ", "a", " ", " ", "b", "\t", "c", "\n">>,
               <<"a", "\n", "b", "\n", "c">>,
               <<"a", "\n", "b", "\n", "c", "\n">> }
\* useFileProcessor({validation: {minSize: undefined}}): the empty file passes
TextOptions == [PlainOptions EXCEPT !.validation.minSize = None]

\* longest array of records handed to generateCSV
MaxRecords == 2
\* most properties of one record
MaxProps == 2

\* the keys and the values of the records generateCSV is exercised on
CsvKeys == {<<"a">>, <<"b">>, ConstructorKey}
CsvValues ==
    { JsNull, JsUndefined, JsNumber(<<"1">>), JsString(<<"x", ",", "y">>),
      JsString(<<"\"">>), JsString(<<"x", "\n">>) }
CsvRecords ==
    { item \in SeqsUpTo([key : CsvKeys, value : CsvValues], MaxProps) :
        \A i, j \in 1..Len(item) : item[i].key = item[j].key => i = j }
CsvData == SeqsUpTo(CsvRecords, MaxRecords)

----------------------------------------------------------------------------
(* The state after construction *)

Constructed(hk, opts, files) ==
    /\ hook = hk
    /\ options = opts
    /\ fileSet = files
    /\ isProcessing = FALSE
    /\ progress = Frac(0, 1)
    /\ error = NoError
    /\ processedFiles = <<>>
    /\ abortControllerRef = 0
    /\ aborted = [c \in Calls |-> FALSE]
    /\ call = [c \in Calls |-> UnusedCall]
    /\ ncalls = 0
    /\ batch = [b \in Batches |-> UnusedBatch]
    /\ writes = <<>>
    /\ isGenerating = FALSE
    /\ generatedReports = <<>>
    /\ renderedReports = <<>>
    /\ rcall = [r \in ReportCalls |-> UnusedReportCall]
    /\ nreports = 0
    /\ multi = UnusedMulti
    /\ timers = {}
    /\ revoked = {}

\* the data at hand, generateCSV not called yet
Unapplied(arg) == input = arg /\ output = <<>>

Init ==
    \/ \E opts \in HookOptions :
          Constructed("useFileProcessor", opts, Files) /\ Unapplied(GoodContent)
    \/ Constructed("useReportGenerator", PlainOptions, {}) /\ Unapplied(<<>>)

\* one rule set, one file: the inputs of validateFile
InitValidate ==
    \E v \in ValidationOptionSets, f \in ValidationFiles :
        /\ Constructed("useFileProcessor",
                       [CallbackOptions EXCEPT !.validation = v], {f})
        /\ Unapplied(<<>>)

\* a hook without size rules and one file, whose content is one of the texts
InitText ==
    \E text \in Texts :
        /\ Constructed("useFileProcessor", TextOptions,
                       {[name |-> TxtName, size |-> Len(text), type |-> "text/plain"]})
        /\ Unapplied(text)

\* the hook of generateCSV and one array of records
InitCSV ==
    \E data \in CsvData :
        Constructed("useReportGenerator", PlainOptions, {}) /\ Unapplied(data)

----------------------------------------------------------------------------
(* The actions of useFileProcessor *)

FileHook == hook = "useFileProcessor"
InFlight(c) == call[c].pc \notin {"unused", "done"}

\* validateFile(file), called by the user of the hook
CallValidateFile ==
    /\ FileHook /\ ncalls < MaxCalls
    /\ \E f \in fileSet, onErr \in CallbackOutcomes :
        (\E after \in {validateFile(
            [St EXCEPT !.ncalls = @ + 1,
                       !.call[ncalls + 1] = [UnusedCall EXCEPT !.op = "validateFile",
                                                !.pc = "started", !.file = f]],
            ncalls + 1, onErr)} : Becomes(after))

\* the custom validator settles
CustomValidatorSettles ==
    /\ FileHook
    /\ \E c \in Calls, isValid \in {"true", "false", "throws"}, onErr \in CallbackOutcomes :
        /\ call[c].pc = "validating"
        /\ (\E after \in {validateFile_afterCustom(St, c, isValid, onErr)} : Becomes(after))

\* processFile(file), called by the user of the hook
CallProcessFile ==
    /\ FileHook /\ ncalls < MaxCalls
    /\ \E f \in fileSet, onErr \in CallbackOutcomes :
        (\E after \in {processFile([St EXCEPT !.ncalls = @ + 1], ncalls + 1, f, 0, onErr)} : Becomes(after))

\* `await validateFile(file)` resumes
ResumeAfterValidate ==
    /\ FileHook
    /\ \E c \in Calls, onErr \in CallbackOutcomes :
        /\ call[c].pc = "validated"
        /\ (\E after \in {processFile_afterValidate(St, c, onErr)} : Becomes(after))

\* reader.onprogress with lengthComputable
ReaderProgress ==
    /\ FileHook
    /\ \E c \in Calls :
        /\ call[c].pc = "reading"
        /\ (\E after \in {setProgress(St, Frac(1, 2))} : Becomes(after))

\* reader.onload or reader.onerror, and the resumption of processFile
ReaderSettles ==
    /\ FileHook
    /\ \E c \in Calls, loaded \in BOOLEAN, onSucc \in CallbackOutcomes,
          onErr \in CallbackOutcomes :
        /\ call[c].pc = "reading"
        /\ (\E after \in {processFile_afterRead(St, c, loaded, onSucc, onErr)} : Becomes(after))

\* crypto.subtle.digest settles, and the resumption of processFile
DigestSettles ==
    /\ FileHook
    /\ \E c \in Calls, digested \in BOOLEAN, onSucc \in CallbackOutcomes,
          onErr \in CallbackOutcomes :
        /\ call[c].pc = "hashing"
        /\ (\E after \in {processFile_afterChecksum(St, c, digested, onSucc, onErr)} : Becomes(after))

StartBatch(files) ==
    /\ FileHook
    /\ ncalls + Len(files) <= MaxCalls
    /\ \E b \in Batches, onErr \in CallbackOutcomes :
        /\ batch[b].pc = "unused"
        /\ \A a \in Batches : a < b => batch[a].pc # "unused"
        /\ (\E after \in {processFiles(St, b, files, onErr)} : Becomes(after))

\* processFiles(files), called by the user of the hook
CallProcessFiles == \E files \in SeqsUpTo(fileSet, MaxBatchLen) : StartBatch(files)

\* useFileDrop: handleDrop with event.dataTransfer.files
HandleDrop ==
    \E files \in SeqsUpTo(fileSet, MaxBatchLen) : Len(files) > 0 /\ StartBatch(files)

\* useFileInput: handleFileChange with event.target.files
HandleFileChange ==
    \E files \in SeqsUpTo(fileSet, MaxBatchLen) : Len(files) > 0 /\ StartBatch(files)

\* `await processFile(file)` resumes in processFiles
ResumeProcessFiles ==
    /\ FileHook
    /\ \E b \in Batches, onErr \in CallbackOutcomes :
        /\ batch[b].pc = "awaiting"
        /\ call[batch[b].base + batch[b].i].pc = "done"
        /\ (\E after \in {processFiles_resume(St, b, onErr)} : Becomes(after))

\* abortProcessing(); a call whose read is pending notes that it was made
AbortProcessing ==
    /\ FileHook
    /\ \E c \in Calls : InFlight(c)
    /\ (\E after \in {[abortProcessing(St) EXCEPT !.call =
            [c \in Calls |-> IF call[c].pc = "reading"
                             THEN [call[c] EXCEPT !.abortedInRead = TRUE]
                             ELSE call[c]]]} : Becomes(after))

ClearProcessedFiles ==
    /\ FileHook
    /\ (\E after \in {clearProcessedFiles(St)} : Becomes(after))

----------------------------------------------------------------------------
(* The actions of useReportGenerator *)

ReportHook == hook = "useReportGenerator"

\* generateReport(data, options), called by the user of the hook
CallGenerateReport ==
    /\ ReportHook /\ nreports < MaxReports
    /\ \E format \in FormatTags, formatter \in CallbackOutcomes, size \in ReportSizes :
        (\E after \in {generateReport([St EXCEPT !.nreports = @ + 1], nreports + 1,
                               format, formatter, size)} : Becomes(after))

\* generateMultipleReports(data, formats, baseOptions), called by the user of the hook
CallGenerateMultipleReports ==
    /\ ReportHook /\ multi.pc = "unused"
    /\ \E formats \in SeqsUpTo(ReportFormat, MaxFormats),
          formatter \in CallbackOutcomes, size \in ReportSizes :
        /\ nreports + Len(formats) <= MaxReports
        /\ (\E after \in {generateMultipleReports(St, formats, formatter, size)} : Becomes(after))

\* `await generateReport(data, options)` resumes in generateMultipleReports
ResumeGenerateMultipleReports ==
    /\ ReportHook /\ multi.pc = "awaiting"
    /\ \E formatter \in CallbackOutcomes, size \in ReportSizes :
        (\E after \in {generateMultipleReports_resume(St, formatter, size)} : Becomes(after))

ClearReports ==
    /\ ReportHook
    /\ (\E after \in {clearReports(St)} : Becomes(after))

\* React renders the component again: useCallback makes a clearReports that
\* closes over the current generatedReports
Render ==
    /\ ReportHook
    /\ renderedReports # generatedReports
    /\ (\E after \in {[St EXCEPT !.renderedReports = generatedReports]} : Becomes(after))

\* the timer set by downloadBlob fires: URL.revokeObjectURL(url)
RevokeTimerFires ==
    /\ ReportHook
    /\ \E url \in timers :
        (\E after \in {[St EXCEPT !.timers = @ \ {url}, !.revoked = @ \cup {url}]} : Becomes(after))

\* generateCSV(data, options), called by generateReport or by a test
CallGenerateCSV ==
    /\ ReportHook /\ output = <<>>
    /\ (\E after \in {[St EXCEPT !.output = <<generateCSV(input)>>]} : Becomes(after))

----------------------------------------------------------------------------
(* The specifications *)

\* the resumptions the event loop and the host are bound to run
Continue ==
    \/ CustomValidatorSettles
    \/ ResumeAfterValidate
    \/ ReaderSettles
    \/ DigestSettles
    \/ ResumeProcessFiles
    \/ ResumeGenerateMultipleReports

Next ==
    \/ CallValidateFile
    \/ CallProcessFile
    \/ CallProcessFiles
    \/ HandleDrop
    \/ HandleFileChange
    \/ ReaderProgress
    \/ AbortProcessing
    \/ ClearProcessedFiles
    \/ CallGenerateReport
    \/ CallGenerateMultipleReports
    \/ ClearReports
    \/ Render
    \/ RevokeTimerFires
    \/ Continue

Spec == Init /\ [][Next]_vars

\* every pending resumption is eventually run
FairSpec == Spec /\ WF_vars(Continue)

\* validateFile alone, on every rule set and file of the input sets
NextValidate ==
    \/ CallValidateFile
    \/ CustomValidatorSettles

SpecValidate == InitValidate /\ [][NextValidate]_vars

\* processFile over a file of every text of the bounded set
NextText == CallProcessFile \/ ResumeAfterValidate \/ ReaderSettles
SpecText == InitText /\ [][NextText]_vars

\* generateCSV alone, over every array of records of the bounded sets
NextCSV == CallGenerateCSV
SpecCSV == InitCSV /\ [][NextCSV]_vars

----------------------------------------------------------------------------
(* The claims *)

ProcessCalls == {c \in Calls : call[c].op = "processFile"}
Ended(c) == call[c].pc = "done"
Listed(c) == \E k \in 1..Len(processedFiles) : processedFiles[k].call = c

\* C1: every entry of processedFiles comes from a processFile call that passed
\* validation, completed its read and returned the entry (not null, no error
\* record), and every entry of generatedReports from a generateReport call
\* that returned it.
C1_ListsHoldOnlyReturnedResults ==
    /\ \A c \in Calls : Listed(c) =>
          /\ call[c].valid = "true" /\ call[c].readLoaded
          /\ call[c].result = "file" /\ call[c].nErrors = 0
    /\ \A k \in 1..Len(generatedReports) :
          rcall[generatedReports[k].downloadUrl].result = generatedReports[k].downloadUrl

\* C2: a processFile call during whose pending read abortProcessing was called
\* ends without a result: its error record is a PROCESSING_ERROR and its file
\* is not appended to processedFiles.  (That it returns null rather than
\* rejects is left to C7.)
C2_AbortedReadYieldsNoResult ==
    \A c \in ProcessCalls : (Ended(c) /\ call[c].abortedInRead) =>
        /\ call[c].result # "file"
        /\ call[c].lastCode = "PROCESSING_ERROR"
        /\ ~Listed(c)

\* C3: at most one processFile call of the instance is in flight at any time.
C3_OneOperationInFlight ==
    Cardinality({c \in ProcessCalls : InFlight(c)}) <= 1

\* C4: a processFile call sets the busy flag when it starts, every call in
\* flight eventually ends, and at the step a call ends, whatever its outcome,
\* isProcessing is false; a generateReport call starts and ends within one
\* step, and isGenerating is false when it has ended.
C4_CallsEndIdle ==
    /\ [][ \A c \in Calls :
             /\ (call[c].pc = "unused" /\ call'[c].op = "processFile")
                   => (isProcessing' /\ call'[c].pc # "done")
             /\ (call[c].op = "processFile" /\ InFlight(c) /\ call'[c].pc = "done")
                   => ~isProcessing' ]_vars
    /\ [][ \A r \in ReportCalls :
             rcall[r].pc # rcall'[r].pc => (rcall'[r].pc = "done" /\ ~isGenerating') ]_vars
    /\ \A c \in Calls : InFlight(c) ~> Ended(c)

\* C4 witness: a call ended by an error that left its catch block, another
\* ended with null, and the flag is down
C4_Witness ==
    /\ \E c \in ProcessCalls : Ended(c) /\ call[c].result = "rejected"
    /\ \E c \in ProcessCalls : Ended(c) /\ call[c].result = "null" /\ call[c].readStarted
    /\ ~isProcessing

\* the entries of the files of batch b whose processFile returned a file, in input order
Succeeded(b) ==
    LET bt == batch[b]
        idx == SelectSeq([k \in 1..Len(bt.files) |-> k],
                         LAMBDA k : call[bt.base + k].result = "file")
    IN  [j \in 1..Len(idx) |-> [file |-> bt.files[idx[j]], call |-> bt.base + idx[j]]]

\* the reports of the formats whose generateReport returned a report, in input order
Generated ==
    SelectSeq([k \in 1..Len(multi.formats) |-> rcall[multi.base + k].result],
              LAMBDA r : r # 0)

\* C5: a batch attempts every item once, in input order, also after a failed
\* item, and returns the results of the items that succeeded, in input order.
C5_BatchAttemptsEveryItem ==
    /\ \A b \in Batches :
        /\ \A k \in 1..Len(batch[b].files) :
              call[batch[b].base + k].pc # "unused" =>
                  /\ call[batch[b].base + k].file = batch[b].files[k]
                  /\ \A j \in 1..(k - 1) : Ended(batch[b].base + j)
        /\ batch[b].pc \in {"done", "rejected"} =>
              \A k \in 1..Len(batch[b].files) : Ended(batch[b].base + k)
        /\ batch[b].pc = "done" => batch[b].results = Succeeded(b)
    /\ \A k \in 1..Len(multi.formats) :
          rcall[multi.base + k].pc # "unused" =>
              rcall[multi.base + k].format = multi.formats[k]
    /\ multi.pc = "done" =>
          /\ \A k \in 1..Len(multi.formats) : rcall[multi.base + k].pc = "done"
          /\ multi.reports = Generated

NonDecreasing(seq) == \A k \in 1..(Len(seq) - 1) : Leq(seq[k], seq[k + 1])

\* C6: the values a running processFiles call has written to progress never
\* decrease: at every step the batch takes, the values written, in order,
\* are no lower than the value progress held and than one another.
C6_BatchProgressMonotonic ==
    [][ \A b \in Batches :
          (batch[b].pc = "awaiting" /\ batch'[b] # batch[b])
              => NonDecreasing(<<progress>> \o writes') ]_vars

\* C7: no call of validateFile, processFile or processFiles rejects; a call
\* that ends false or null has stored an error record.
C7_NothingRejects ==
    /\ \A c \in Calls : Ended(c) =>
          /\ call[c].result # "rejected"
          /\ call[c].result \in {"false", "null"} => call[c].nErrors >= 1
    /\ \A b \in Batches : batch[b].pc # "rejected"

\* C8: a failed processFile call has stored exactly one error record and has
\* invoked onError, when configured, exactly once; a successful one has invoked
\* onSuccess exactly once, onError never, and has stored no error record.
C8_OneErrorRecordPerFailure ==
    \A c \in ProcessCalls : Ended(c) =>
        IF call[c].result = "file"
        THEN /\ call[c].nErrors = 0 /\ call[c].nOnError = 0
             /\ options.onSuccess => call[c].nOnSuccess = 1
        ELSE /\ call[c].nErrors = 1
             /\ options.onError => call[c].nOnError = 1

\* C9: a file that fails validation is never read and the error record of its
\* processFile call has code VALIDATION_ERROR; a call that fails after
\* validation passed has an error record of code PROCESSING_ERROR.
C9_ValidationPrecedesRead ==
    \A c \in ProcessCalls :
        /\ call[c].readStarted => call[c].valid = "true"
        /\ Ended(c) /\ call[c].valid # "true"
              => ~call[c].readStarted /\ call[c].lastCode = "VALIDATION_ERROR"
        /\ Ended(c) /\ call[c].valid = "true" /\ call[c].result # "file"
              => call[c].lastCode = "PROCESSING_ERROR"

\* which of the rules max-size, min-size, MIME type, extension (in this order)
\* file f violates under rule set v; a limit that is undefined or 0 and a list
\* that is undefined put no rule in force
Violations(f, v) ==
    << Truthy(v.maxSize) /\ f.size > v.maxSize[1],
       Truthy(v.minSize) /\ f.size < v.minSize[1],
       v.allowedTypes # None /\ f.type \notin v.allowedTypes[1],
       v.allowedExtensions # None /\ Extension(f.name) \notin v.allowedExtensions[1] >>
RuleMessages == <<MsgMaxSize, MsgMinSize, MsgType, MsgExtension>>
\* the first violated rule, 0 when none is
FirstViolated(f, v) ==
    IF \E i \in 1..4 : Violations(f, v)[i]
    THEN CHOOSE i \in 1..4 :
            Violations(f, v)[i] /\ \A j \in 1..(i - 1) : ~Violations(f, v)[j]
    ELSE 0

RulesHold(f, v) ==
    /\ v.maxSize # None => f.size <= v.maxSize[1]
    /\ v.minSize # None => f.size >= v.minSize[1]
    /\ v.allowedTypes # None => f.type \in v.allowedTypes[1]
    /\ v.allowedExtensions # None => Extension(f.name) \in v.allowedExtensions[1]

\* C11: a validateFile call returns true only for a file that satisfies every
\* rule of the rule set, returns true for every such file when there is no
\* custom predicate, and for a file that breaks a rule yields no true result
\* and a VALIDATION_ERROR record carrying the file (whether the failed call
\* returns false or rejects is the subject of C7).
C11_ValidIffRulesHold ==
    \A c \in Calls : call[c].op = "validateFile" /\ Ended(c) =>
        LET f == call[c].file
            v == options.validation
        IN  /\ call[c].result = "true" => RulesHold(f, v)
            /\ RulesHold(f, v) /\ ~v.customValidator => call[c].result = "true"
            /\ ~RulesHold(f, v) =>
                  /\ call[c].result \in {"false", "rejected"}
                  /\ call[c].lastCode = "VALIDATION_ERROR"
                  /\ error # NoError /\ error.file = f

\* C12: a clearReports call leaves generatedReports empty, and every download
\* handle of a report that was in the registry when it was called is released
\* once it has run.
C12_ClearReleasesEveryHandle ==
    [][ ClearReports =>
          /\ generatedReports' = <<>>
          /\ \A k \in 1..Len(generatedReports) :
                generatedReports[k].downloadUrl \in revoked' ]_vars

RECURSIVE SumOver(_, _)
SumOver(f, S) ==
    IF S = {} THEN 0
    ELSE LET x == CHOOSE y \in S : TRUE IN f[x] + SumOver(f, S \ {x})

\* the statistics stats are those of the registry reg
StatsDescribe(stats, reg) ==
    LET entries == 1..Len(reg)
        with(f) == {k \in entries : reg[k].format = f}
    IN  /\ stats.totalReports = Len(reg)
        /\ stats.totalSize = SumOver([k \in entries |-> reg[k].size], entries)
        /\ DOMAIN stats.formatCounts = {reg[k].format : k \in entries}
        /\ \A f \in DOMAIN stats.formatCounts :
              stats.formatCounts[f] = Cardinality(with(f))
        /\ SumOver(stats.formatCounts, DOMAIN stats.formatCounts) = stats.totalReports
        /\ IF Len(reg) = 0 THEN stats.averageSize = Frac(0, 1)
           ELSE stats.averageSize.n * Len(reg) = stats.totalSize * stats.averageSize.d

\* C14: getReportStats returns the number of registry entries, the sum of
\* their sizes, for each format the number of entries of that format (formats
\* without entries are not listed, the counts sum to the total), and the
\* average size totalSize / totalReports, 0 for the empty registry; for the
\* registry of the render it belongs to and for every value the registry takes.
C14_StatsDescribeRegistry ==
    /\ StatsDescribe(getReportStats(renderedReports), renderedReports)
    /\ StatsDescribe(getReportStats(generatedReports), generatedReports)

\* C14 witness: a rendered registry of two reports of one format and of
\* different sizes: 2 reports, total size 3, average 3/2
C14_Witness ==
    /\ hook = "useReportGenerator"
    /\ Len(renderedReports) = 2
    /\ renderedReports[1].format = renderedReports[2].format
    /\ getReportStats(renderedReports).totalSize = 3
    /\ getReportStats(renderedReports).averageSize = [n |-> 3, d |-> 2]
    /\ getReportStats(renderedReports).formatCounts[renderedReports[1].format] = 2

\* the text cut at every separator sep that stands outside quotes: the rows
\* of a CSV text (sep a newline), the fields of a row (sep a comma)
RECURSIVE CutOutsideQuotes(_, _, _, _, _)
CutOutsideQuotes(text, sep, k, quoted, piece) ==
    IF k > Len(text) THEN <<piece>>
    ELSE IF text[k] = sep /\ ~quoted
         THEN <<piece>> \o CutOutsideQuotes(text, sep, k + 1, FALSE, <<>>)
    ELSE CutOutsideQuotes(text, sep, k + 1,
                          IF text[k] = "\"" THEN ~quoted ELSE quoted,
                          Append(piece, text[k]))

\* a quoted field without its quotes, every doubled quote read as one
RECURSIVE Unquote(_, _)
Unquote(field, k) ==
    IF k >= Len(field) THEN <<>>
    ELSE IF field[k] = "\"" /\ k + 1 < Len(field) /\ field[k + 1] = "\""
         THEN <<"\"">> \o Unquote(field, k + 2)
    ELSE <<field[k]>> \o Unquote(field, k + 1)

IsQuoted(field) == Len(field) >= 2 /\ field[1] = "\"" /\ field[Len(field)] = "\""
FieldValue(field) == IF IsQuoted(field) THEN Unquote(field, 2) ELSE field

\* the keys of all records, each once, ordered by the first record and the
\* first position in it that holds the key
KeyUnion(data) ==
    LET keys == {data[i][j].key : <<i, j>> \in
                    {p \in (1..Len(data)) \X (1..MaxProps) : p[2] <= Len(data[p[1]])}}
        first(key) == CHOOSE p \in (1..Len(data)) \X (1..MaxProps) :
            /\ p[2] <= Len(data[p[1]]) /\ data[p[1]][p[2]].key = key
            /\ \A q \in (1..Len(data)) \X (1..MaxProps) :
                  q[2] <= Len(data[q[1]]) /\ data[q[1]][q[2]].key = key
                  => (p[1] < q[1] \/ (p[1] = q[1] /\ p[2] <= q[2]))
        earlier(a, b) == first(a)[1] < first(b)[1]
                         \/ (first(a)[1] = first(b)[1] /\ first(a)[2] < first(b)[2])
    IN  CHOOSE s \in [1..Cardinality(keys) -> keys] :
            \A a, b \in 1..Cardinality(keys) : a < b => earlier(s[a], s[b])

\* what the field of a record for a key has to show: the text of its value,
\* nothing for a key the record does not have and for null and undefined
Shown(item, key) ==
    IF \E i \in 1..Len(item) :
          item[i].key = key /\ item[i].value.kind \notin {"null", "undefined"}
    THEN item[CHOOSE i \in 1..Len(item) : item[i].key = key].value.str
    ELSE <<>>

\* C15: for a non-empty array of records the text generateCSV returns is a
\* header of the union of the keys in first-seen order, then one row per
\* record in input order; a row has one field per header key; a missing, null
\* or undefined value is an empty field; a value is quoted, its quotes
\* doubled, exactly when it holds a comma, a quote or a newline.
C15_CsvRowsMatchRecords ==
    output # <<>> /\ Len(input) > 0 =>
        LET keys == KeyUnion(input)
            rows == CutOutsideQuotes(output[1], "\n", 1, FALSE, <<>>)
            fields(i) == IF Len(keys) = 0 THEN <<>>
                         ELSE CutOutsideQuotes(rows[i + 1], ",", 1, FALSE, <<>>)
        IN  /\ Len(rows) = 1 + Len(input)
            /\ rows[1] = Join(keys, <<",">>, Len(keys))
            /\ \A i \in 1..Len(input) :
                  /\ Len(fields(i)) = Len(keys)
                  /\ Len(keys) = 0 => rows[i + 1] = <<>>
                  /\ \A j \in 1..Len(keys) :
                        /\ FieldValue(fields(i)[j]) = Shown(input[i], keys[j])
                        /\ IsQuoted(fields(i)[j]) <=>
                              \E ch \in {",", "\"", "\n"} :
                                  Includes(Shown(input[i], keys[j]), ch)

\* the number of maximal runs of non-whitespace characters of a text: the
\* positions that hold a non-whitespace character and follow none
WordRuns(text) ==
    Cardinality({i \in 1..Len(text) :
        /\ text[i] \notin {" ", "\t", "\n"}
        /\ i > 1 => text[i - 1] \in {" ", "\t", "\n"}})
NewlineCount(text) == Cardinality({i \in 1..Len(text) : text[i] = "\n"})

\* C16: countWords of a text is the number of its maximal runs of
\* non-whitespace characters, countLines is the number of its newlines plus
\* one, and every result of processFile holds the content of the file with
\* these two values and the length of the content as wordCount, lineCount and
\* characterCount.
C16_CountsMatchContent ==
    /\ countWords(input) = WordRuns(input)
    /\ countLines(input) = NewlineCount(input) + 1
    /\ \A k \in 1..Len(processedFiles) :
          /\ processedFiles[k].content = input
          /\ processedFiles[k].characterCount = Len(input)
          /\ processedFiles[k].wordCount = WordRuns(input)
          /\ processedFiles[k].lineCount = NewlineCount(input) + 1

\* C16 witness: the text "  a  b\tc\n" was processed: 9 characters, 3 words,
\* 2 lines (the trailing newline adds an empty line)
C16_Witness ==
    /\ input = <<" ", " ", "a", " ", " ", "b", "\t", "c", "\n">>
    /\ Len(processedFiles) = 1
    /\ processedFiles[1].characterCount = 9
    /\ processedFiles[1].wordCount = 3
    /\ processedFiles[1].lineCount = 2

\* C17: isProcessing is true exactly in the states in which some processFile
\* call has started and has not yet returned.
C17_BusyFlagTracksCalls ==
    hook = "useFileProcessor" =>
        (isProcessing <=> \E c \in Calls : call[c].op = "processFile" /\ InFlight(c))

\* C18: the download handle of every report held in generatedReports has not
\* been released.
C18_RegistryHandlesValid ==
    \A k \in 1..Len(generatedReports) : generatedReports[k].downloadUrl \notin revoked

====
